---- MODULE Spec2Model ----
(***************************************************************************)
(* A model of tetra's ImageData (src/src/graphics/image_data.rs): the raw  *)
(* pixel buffer with its constructor from_data and the operations region,  *)
(* get_pixel_color, set_pixel_color, transform and premultiply.            *)
(*                                                                         *)
(* A driver constructs one ImageData with from_data and then calls the     *)
(* operations on it, one call at a time.  Every call leaves a record of    *)
(* its arguments, of the receiver before the call and of what it returned  *)
(* in the variable last; the properties are stated over that record.  The  *)
(* build is either one with overflow checks (a debug build: an arithmetic  *)
(* overflow panics) or one without (a release build: it wraps).            *)
(*                                                                         *)
(* Machine integers.  usize is 64 bits wide in the build this models.  A   *)
(* usize value u is written as the integer r nearest to zero with          *)
(* u = r mod 2^64: the values 0, 1, 2, ... are themselves and the values   *)
(* 2^64-1, 2^64-2, ... (what "-1 as usize", "-2 as usize" give) are -1,    *)
(* -2, ...  Every value the model computes is within a few hundred of 0 or *)
(* of 2^64, so wrapping addition and multiplication are + and * on these   *)
(* representatives, the unsigned order is ULess, and whether the true      *)
(* unsigned result left the 64 bits is AddOverflows / MulOverflows.        *)
(***************************************************************************)
EXTENDS Integers, Sequences, FiniteSets, TLC

VARIABLES
    overflow_checks,  \* the build panics on arithmetic overflow
    pc,               \* "start", "idle" (between calls) or "returned"
    image,            \* the ImageData the driver holds
    origin,           \* the width and height from_data was given
    last,             \* the last call: arguments, receiver before, result
    just_set,         \* position and colour of a set_pixel_color just done
    ncalls            \* calls made on the image so far

vars == <<overflow_checks, pc, image, origin, last, just_set, ncalls>>

----------------------------------------------------------------------------
(* Bounds of the model *)

\* widths and heights given to from_data range over -1..MaxDim
MaxDim == 2
\* the byte vectors given to from_data have 0..MaxLen bytes
MaxLen == 17
\* calls made after the construction
MaxCalls == 2

----------------------------------------------------------------------------
(* usize and i32 arithmetic *)

\* `v as usize` of an i32: sign extension, so a negative v becomes 2^64 + v,
\* whose representative is again v
AsUsize(v) == v

\* `u as i32` of a usize: the low 32 bits read as signed; 2^64 - k gives -k
AsI32(u) == u

IsHuge(u) == u < 0

\* a < b as unsigned 64-bit values
ULess(a, b) ==
    IF IsHuge(a) = IsHuge(b) THEN a < b ELSE IsHuge(b)

ULessEq(a, b) == a = b \/ ULess(a, b)

\* the true sum of two usize values does not fit 64 bits
AddOverflows(a, b) ==
    CASE IsHuge(a) /\ IsHuge(b) -> TRUE
      [] IsHuge(a) \/ IsHuge(b) -> a + b >= 0
      [] OTHER -> FALSE

\* the true product of two usize values does not fit 64 bits
MulOverflows(a, b) ==
    CASE IsHuge(a) /\ IsHuge(b) -> TRUE
      [] IsHuge(a) -> b >= 2
      [] IsHuge(b) -> a >= 2
      [] OTHER -> FALSE

\* a - b of two usize values goes below zero
SubOverflows(a, b) == ULess(a, b)

\* x % w and x / w on usize for a small x (w = 0 is a division by zero,
\* which the callers test for)
URem(x, w) == IF IsHuge(w) THEN x ELSE x % w
UDiv(x, w) == IF IsHuge(w) THEN 0 ELSE x \div w

----------------------------------------------------------------------------
(* TextureFormat and Color *)

Formats == {"R8", "Rg8", "Rgba8", "Rgba16F"}

\* bytes per pixel of the format whose pixel operations are not written yet
Rgba16FStride == 8

\* TextureFormat::stride: bytes per pixel.  The tests build 2x2 images of
\* R8, Rg8 and Rgba8 from 4, 8 and 16 bytes and read each pixel back.
stride(format) ==
    CASE format = "R8" -> 1
      [] format = "Rg8" -> 2
      [] format = "Rgba8" -> 4
      [] format = "Rgba16F" -> Rgba16FStride

Byte == 0..255

\* A Color is <<r, g, b, a>>, each channel an 8-bit quantity.
\* Color::rgba8(r, g, b, a)
rgba8(r, g, b, a) == <<r, g, b, a>>

\* [u8; 4] from a Color
ColorBytes(color) == <<color[1], color[2], color[3], color[4]>>

\* to_premultiplied with each quotient rounded to the nearest integer
to_premultiplied_Nearest(color) ==
    <<(2 * color[1] * color[4] + 255) \div 510,
      (2 * color[2] * color[4] + 255) \div 510,
      (2 * color[3] * color[4] + 255) \div 510,
      color[4]>>

\* Color::to_premultiplied: each colour channel times alpha over 255,
\* by integer multiply then divide
to_premultiplied(color) ==
    rgba8((color[1] * color[4]) \div 255,
          (color[2] * color[4]) \div 255,
          (color[3] * color[4]) \div 255,
          color[4])

Min(a, b) == IF a < b THEN a ELSE b

NoColor == <<>>

NoImage == [data |-> <<>>, width |-> 0, height |-> 0, format |-> "none"]

\* ImageData::width(), ImageData::height(): the i32 the accessors return
Width(img) == AsI32(img.width)
Height(img) == AsI32(img.height)

----------------------------------------------------------------------------------------------------------------------------------------------
(* What a call gives back.  outcome is "ok" (returned normally), "err"     *)
(* (returned Err(NotEnoughData)), "panic" (terminated fatally; why names   *)
(* the panic) or "hang" (a loop of some 2^64 iterations).  image is the    *)
(* receiver as the call leaves it, ret the ImageData it returns, color the *)
(* Color it returns, calls the sequence of arguments transform handed to   *)
(* its closure.                                                            *)

NoResult == [outcome |-> "none", why |-> "", image |-> NoImage,
             ret |-> NoImage, color |-> NoColor,
             expected |-> 0, actual |-> 0, calls |-> <<>>]

Panic(img, why) ==
    [NoResult EXCEPT !.outcome = "panic", !.why = why, !.image = img]

----------------------------------------------------------------------------
(* ImageData::from_data *)

\* width * height * format.stride(), with whether a multiplication left usize
ByteSize(width, height, format) ==
    LET wh == width * height
    IN [val |-> wh * stride(format),
        ovf |-> MulOverflows(width, height) \/ MulOverflows(wh, stride(format))]

from_data(width, height, format, bytes) ==
    LET w == AsUsize(width)
        h == AsUsize(height)
        size == ByteSize(w, h, format)
        expected == size.val
        actual == Len(bytes)
    IN IF overflow_checks /\ size.ovf
         THEN Panic(NoImage, "overflow")
       ELSE IF ULess(actual, expected)
         THEN [NoResult EXCEPT !.outcome = "err",
                               !.expected = expected, !.actual = actual]
       ELSE [NoResult EXCEPT
               !.outcome = "ok",
               !.ret = [data |-> SubSeq(bytes, 1, expected),
                        width |-> w, height |-> h, format |-> format]]

----------------------------------------------------------------------------
(* ImageData::get_pixel_color and ImageData::set_pixel_color *)

\* PixelIndex with x and y taken the other way round
PixelIndex_Transposed(img, position) ==
    LET idx == (position[2] + position[1] * img.width) * stride(img.format)
    IN [idx |-> idx, end |-> idx + stride(img.format) - 1, ovf |-> FALSE]

\* pixel_idx, idx and idx + stride - 1 of a position, with whether one of
\* the additions and multiplications left usize
PixelIndex(img, position) ==
    LET x == AsUsize(position[1])
        y == AsUsize(position[2])
        yw == y * img.width
        pixel_idx == x + yw
        idx == pixel_idx * stride(img.format)
        next == idx + stride(img.format)
    IN [idx |-> idx,
        end |-> next - 1,
        ovf |-> \/ MulOverflows(y, img.width)
                \/ AddOverflows(x, yw)
                \/ MulOverflows(pixel_idx, stride(img.format))
                \/ AddOverflows(idx, stride(img.format))
                \/ SubOverflows(next, 1)]

\* the assertion "position was out of bounds" passes
PositionAssert(img, position) ==
    ULess(PixelIndex(img, position).end, Len(img.data))

\* self.data[idx .. idx + n - 1] is inside the vector (the indexing
\* expressions panic otherwise)
IndexOk(img, idx, n) ==
    ~IsHuge(idx) /\ idx + n <= Len(img.data)

\* StoredChannels with Rg8 storing its red channel alone
StoredChannels_RedOnly(format) ==
    IF format = "Rgba8" THEN 4 ELSE 1

\* the channels a format stores: the leading 1, 2 or 4 of r, g, b, a
StoredChannels(format) ==
    CASE format = "Rgba8" -> 4
      [] format = "R8" -> 1
      [] format = "Rg8" -> 2

\* DecodeAt with the stored byte of R8 spread over the colour channels
DecodeAt_Grey(img, idx) ==
    CASE img.format = "Rgba8" ->
           rgba8(img.data[idx + 1], img.data[idx + 2],
                 img.data[idx + 3], img.data[idx + 4])
      [] img.format = "R8" ->
           rgba8(img.data[idx + 1], img.data[idx + 1], img.data[idx + 1], 255)
      [] img.format = "Rg8" ->
           rgba8(img.data[idx + 1], img.data[idx + 2], 0, 255)

\* the Color of the bytes at offset idx
DecodeAt(img, idx) ==
    CASE img.format = "Rgba8" ->
           rgba8(img.data[idx + 1], img.data[idx + 2],
                 img.data[idx + 3], img.data[idx + 4])
      [] img.format = "R8" ->
           rgba8(img.data[idx + 1], 0, 0, 255)
      [] img.format = "Rg8" ->
           rgba8(img.data[idx + 1], img.data[idx + 2], 0, 255)

get_pixel_color(img, position) ==
    LET p == PixelIndex(img, position)
    IN IF overflow_checks /\ p.ovf THEN Panic(img, "overflow")
       ELSE IF ~PositionAssert(img, position) THEN Panic(img, "assert")
       ELSE IF img.format = "Rgba16F" THEN Panic(img, "unimplemented")
       ELSE IF ~IndexOk(img, p.idx, StoredChannels(img.format))
         THEN Panic(img, "index")
       ELSE [NoResult EXCEPT !.outcome = "ok", !.image = img,
                             !.color = DecodeAt(img, p.idx)]

\* data with the n bytes at offset idx replaced by the first n bytes of src
\* (copy_from_slice, and the single assignment of R8)
CopyInto(data, idx, src, n) ==
    [i \in 1..Len(data) |->
        IF i > idx /\ i <= idx + n THEN src[i - idx] ELSE data[i]]

\* set_pixel_color with the arm of Rgba16F writing the four bytes of the
\* colour, as the arm of Rgba8 does
set_pixel_color_Rgba16FAsRgba8(img, position, color) ==
    LET p == PixelIndex(img, position)
        data == ColorBytes(color)
        n == IF img.format = "Rgba16F" THEN 4 ELSE StoredChannels(img.format)
    IN IF overflow_checks /\ p.ovf THEN Panic(img, "overflow")
       ELSE IF ~PositionAssert(img, position) THEN Panic(img, "assert")
       ELSE IF ~IndexOk(img, p.idx, n) THEN Panic(img, "index")
       ELSE [NoResult EXCEPT
               !.outcome = "ok",
               !.image = [img EXCEPT !.data =
                   CopyInto(img.data, p.idx, data, n)]]

set_pixel_color(img, position, color) ==
    LET p == PixelIndex(img, position)
        data == ColorBytes(color)
    IN IF overflow_checks /\ p.ovf THEN Panic(img, "overflow")
       ELSE IF ~PositionAssert(img, position) THEN Panic(img, "assert")
       ELSE IF img.format = "Rgba16F" THEN Panic(img, "unimplemented")
       ELSE IF ~IndexOk(img, p.idx, StoredChannels(img.format))
         THEN Panic(img, "index")
       ELSE [NoResult EXCEPT
               !.outcome = "ok",
               !.image = [img EXCEPT !.data =
                   CopyInto(img.data, p.idx, data, StoredChannels(img.format))]]

----------------------------------------------------------------------------
(* ImageData::region *)

\* the assertion "tried to read outside of image bounds" passes; a
\* rectangle is <<x, y, width, height>> of i32
RegionAssert(img, rect) ==
    /\ rect[1] >= 0
    /\ rect[2] >= 0
    /\ rect[1] + rect[3] <= AsI32(img.width)
    /\ rect[2] + rect[4] <= AsI32(img.height)

\* &self.data[x_start..x_end] is a slice of the vector
SliceOk(img, x_start, x_end) ==
    ULessEq(x_start, x_end) /\ ULessEq(x_end, Len(img.data))

\* RowBounds with the row offset taken with the region's width, not the
\* image's
RowBounds_RegionWidth(img, region_x, region_width, scan_y) ==
    LET n == stride(img.format)
        x_start == (region_x + scan_y * region_width) * n
    IN [x_start |-> x_start,
        x_end |-> x_start + region_width * n,
        ovf |-> FALSE]

\* x_start and x_end of the row scan_y, with whether one of the additions
\* and multiplications left usize
RowBounds(img, region_x, region_width, scan_y) ==
    LET n == stride(img.format)
        yw == scan_y * img.width
        px == region_x + yw
        x_start == px * n
        wn == region_width * n
    IN [x_start |-> x_start,
        x_end |-> x_start + wn,
        ovf |-> \/ MulOverflows(scan_y, img.width)
                \/ AddOverflows(region_x, yw)
                \/ MulOverflows(px, n)
                \/ MulOverflows(region_width, n)
                \/ AddOverflows(x_start, wn)]

RECURSIVE RegionRows(_, _, _, _, _, _)
\* the loop over scan_y from scan_y up to region_end, buffer being the
\* bytes copied so far
RegionRows(img, region_x, region_width, scan_y, region_end, buffer) ==
    LET row == RowBounds(img, region_x, region_width, scan_y)
        x_start == row.x_start
        x_end == row.x_end
    IN IF ~ULess(scan_y, region_end)
         THEN [outcome |-> "ok", why |-> "", data |-> buffer]
       ELSE IF overflow_checks /\ row.ovf
         THEN [outcome |-> "panic", why |-> "overflow", data |-> buffer]
       ELSE IF ~SliceOk(img, x_start, x_end)
         THEN [outcome |-> "panic", why |-> "index", data |-> buffer]
       \* when the next row is the slice this one is (a width of 0), every
       \* row is, and the rows up to a region_end near 2^64 are never
       \* exhausted
       ELSE IF /\ IsHuge(region_end)
               /\ RowBounds(img, region_x, region_width, scan_y + 1) = row
         THEN [outcome |-> "hang", why |-> "", data |-> buffer]
       ELSE RegionRows(img, region_x, region_width, scan_y + 1, region_end,
                       buffer \o SubSeq(img.data, x_start + 1, x_end))

region(img, rect) ==
    LET region_x == AsUsize(rect[1])
        region_y == AsUsize(rect[2])
        region_width == AsUsize(rect[3])
        region_height == AsUsize(rect[4])
        buffer_size == ByteSize(region_width, region_height, img.format)
        region_end == region_y + region_height
        rows == RegionRows(img, region_x, region_width, region_y,
                           region_end, <<>>)
    IN IF ~RegionAssert(img, rect) THEN Panic(img, "assert")
       ELSE IF overflow_checks /\ buffer_size.ovf THEN Panic(img, "overflow")
       \* Vec::with_capacity of more than isize::MAX bytes
       ELSE IF IsHuge(buffer_size.val) THEN Panic(img, "capacity")
       ELSE IF overflow_checks /\ AddOverflows(region_y, region_height)
         THEN Panic(img, "overflow")
       ELSE IF rows.outcome = "panic" THEN Panic(img, rows.why)
       ELSE IF rows.outcome = "hang"
         THEN [NoResult EXCEPT !.outcome = "hang", !.image = img]
       ELSE [NoResult EXCEPT
               !.outcome = "ok",
               !.image = img,
               !.ret = [data |-> rows.data, width |-> region_width,
                        height |-> region_height, format |-> img.format]]

----------------------------------------------------------------------------
(* ImageData::transform and ImageData::premultiply *)

\* The closures handed to transform, by name.  add_one is the closure of
\* the tests (c + Color::rgba8(1, 1, 1, 1), a channel staying at its
\* largest value), mask and swap are a closure that depends on the
\* position and one that moves every channel, to_premultiplied is the
\* closure of premultiply.
Funcs == {"add_one", "mask", "swap"}

Apply(func, position, color) ==
    CASE func = "add_one" ->
           rgba8(Min(color[1] + 1, 255), Min(color[2] + 1, 255),
                 Min(color[3] + 1, 255), Min(color[4] + 1, 255))
      [] func = "mask" ->
           IF (position[1] + position[2]) % 2 = 0
             THEN color
             ELSE rgba8(position[1], position[2], 0, 0)
      [] func = "swap" ->
           rgba8(color[4], color[3], color[2], color[1])
      [] func = "to_premultiplied" -> to_premultiplied(color)

\* ChunkColor with alpha read where red is stored
ChunkColor_AlphaFirst(data, idx, n) ==
    rgba8(data[idx + 1],
          IF 1 < n THEN data[idx + 2] ELSE 0,
          IF 2 < n THEN data[idx + 3] ELSE 0,
          IF 3 < n THEN data[idx + 1] ELSE 255)

\* ChunkColor with a missing alpha channel read as 0, like a missing colour
ChunkColor_NoAlpha(data, idx, n) ==
    rgba8(data[idx + 1],
          IF 1 < n THEN data[idx + 2] ELSE 0,
          IF 2 < n THEN data[idx + 3] ELSE 0,
          IF 3 < n THEN data[idx + 4] ELSE 0)

\* Color::rgba8(data[0], data.get(1) or 0, data.get(2) or 0,
\* data.get(3) or 255) of the chunk of n bytes at offset idx
ChunkColor(data, idx, n) ==
    rgba8(data[idx + 1],
          IF 1 < n THEN data[idx + 2] ELSE 0,
          IF 2 < n THEN data[idx + 3] ELSE 0,
          IF 3 < n THEN data[idx + 4] ELSE 255)

RECURSIVE TransformFrom(_, _, _, _, _)
\* the loop over the chunks from chunk i on, data being the bytes and calls
\* the closure's calls so far
TransformFrom(img, func, i, data, calls) ==
    LET n == stride(img.format)
        x == URem(i, img.width)
        y == UDiv(i, img.width)
        position == <<AsI32(x), AsI32(y)>>
        color == ChunkColor(data, i * n, n)
        output == ColorBytes(Apply(func, position, color))
        called == Append(calls, <<position, color>>)
    IN IF i >= Len(img.data) \div n
         THEN [NoResult EXCEPT !.outcome = "ok", !.calls = calls,
                               !.image = [img EXCEPT !.data = data]]
       ELSE IF img.width = 0
         THEN [Panic([img EXCEPT !.data = data], "division")
                 EXCEPT !.calls = calls]
       ELSE IF img.format = "Rgba16F"
         THEN [Panic([img EXCEPT !.data = data], "unimplemented")
                 EXCEPT !.calls = called]
       ELSE TransformFrom(img, func, i + 1,
                CopyInto(data, i * n, output, StoredChannels(img.format)),
                called)

transform(img, func) == TransformFrom(img, func, 0, img.data, <<>>)

premultiply(img) == transform(img, "to_premultiplied")

----------------------------------------------------------------------------
(* The arguments the driver draws *)

Dims == -1..MaxDim

Max(a, b) == IF a > b THEN a ELSE b

\* the coordinates tried on an image: from one before its first column or
\* row to one past its last
XCoords(img) == -1..Max(Width(img), 0)
YCoords(img) == -1..Max(Height(img), 0)

\* Vec2<i32> positions <<x, y>>
Positions(img) == XCoords(img) \X YCoords(img)

\* the <<start, extent>> pairs tried along an axis of n pixels: every pair
\* with a start of 0 or more and an extent of -1 or more that ends inside
\* the axis, one that starts before it and one that ends past it
Spans(n) ==
    LET m == Max(n, 0)
    IN {s \in (0..m) \X (-1..m) : s[1] + s[2] <= m}
           \cup {<<-1, 1>>, <<m, 1>>}

\* Rectangle<i32> regions <<x, y, width, height>>
Rectangles(img) ==
    {<<sx[1], sy[1], sx[2], sy[2]>> :
        sx \in Spans(Width(img)), sy \in Spans(Height(img))}

\* the byte vectors: the bytes 00 01 02 ... of the tests of region,
\* get_pixel_color, set_pixel_color and transform, and the pixels
\* 00 66 CC aa with aa = 00, 66, CC, FF of the test of premultiply
Patterns == {"ramp", "alpha"}

PatternByte(pattern, i) ==
    CASE pattern = "ramp" -> i % 256
      [] pattern = "alpha" ->
           IF i % 4 = 3
             THEN <<0, 102, 204, 255>>[((i \div 4) % 4) + 1]
             ELSE <<0, 102, 204>>[(i % 4) + 1]

InputBytes(pattern, len) == [i \in 1..len |-> PatternByte(pattern, i - 1)]

\* the colour the tests of set_pixel_color write
Colors == {rgba8(15, 14, 13, 12)}

----------------------------------------------------------------------------
(* The driver *)

NoCall == [op |-> "none", input |-> <<>>, position |-> <<>>,
           color |-> NoColor, rect |-> <<>>, func |-> "",
           before |-> NoImage, res |-> NoResult]

Init ==
    /\ overflow_checks \in BOOLEAN
    /\ pc = "start"
    /\ image = NoImage
    /\ origin = <<>>
    /\ last = NoCall
    /\ just_set = <<>>
    /\ ncalls = 0

\* ImageData::from_data(width, height, format, bytes)
FromData(width, height, format, bytes) ==
    /\ pc = "start"
    /\ LET res == from_data(width, height, format, bytes)
       IN /\ last' = [NoCall EXCEPT !.op = "from_data",
                        !.input = <<width, height, format, bytes>>,
                        !.res = res]
          /\ image' = res.ret
    /\ origin' = <<width, height>>
    /\ pc' = "returned"
    /\ UNCHANGED <<overflow_checks, just_set, ncalls>>

\* the call of an operation on the image: op names it and its arguments,
\* res is what it gives back
Call(op, res) ==
    /\ pc = "idle"
    /\ ncalls < MaxCalls
    /\ last' = [op EXCEPT !.before = image, !.res = res]
    /\ image' = res.image
    /\ pc' = "returned"
    /\ ncalls' = ncalls + 1
    /\ UNCHANGED <<overflow_checks, origin, just_set>>

GetPixelColor(position) ==
    Call([NoCall EXCEPT !.op = "get_pixel_color", !.position = position],
         get_pixel_color(image, position))

SetPixelColor(position, color) ==
    Call([NoCall EXCEPT !.op = "set_pixel_color", !.position = position,
                        !.color = color],
         set_pixel_color(image, position, color))

Region(rect) ==
    Call([NoCall EXCEPT !.op = "region", !.rect = rect],
         region(image, rect))

Transform(func) ==
    Call([NoCall EXCEPT !.op = "transform", !.func = func],
         transform(image, func))

Premultiply ==
    Call([NoCall EXCEPT !.op = "premultiply"], premultiply(image))

\* the driver goes on with the image after a call that returned normally; a
\* panic ends the run, and after Err there is no image
Continue ==
    /\ pc = "returned"
    /\ last.res.outcome = "ok"
    /\ ncalls < MaxCalls
    /\ pc' = "idle"
    /\ just_set' = IF last.op = "set_pixel_color"
                     THEN <<last.position, last.color>>
                     ELSE <<>>
    /\ last' = NoCall
    /\ UNCHANGED <<overflow_checks, image, origin, ncalls>>

\* the driver goes on with the ImageData that region returned
UseRegion ==
    /\ pc = "returned"
    /\ last.op = "region"
    /\ last.res.outcome = "ok"
    /\ ncalls < MaxCalls
    /\ pc' = "idle"
    /\ image' = last.res.ret
    /\ just_set' = <<>>
    /\ last' = NoCall
    /\ UNCHANGED <<overflow_checks, origin, ncalls>>

\* the steps of the driver: the construction, then calls with arguments
\* drawn around the image it holds
Construct ==
    /\ pc = "start"
    /\ \E width \in Dims, height \in Dims, format \in Formats,
          pattern \in Patterns, len \in 0..MaxLen :
          FromData(width, height, format, InputBytes(pattern, len))

CallGetPixelColor ==
    /\ pc = "idle"
    /\ \E position \in Positions(image) : GetPixelColor(position)

CallSetPixelColor ==
    /\ pc = "idle"
    /\ \E position \in Positions(image), color \in Colors :
          SetPixelColor(position, color)

CallRegion ==
    /\ pc = "idle"
    /\ \E rect \in Rectangles(image) : Region(rect)

CallTransform ==
    /\ pc = "idle"
    /\ \E func \in Funcs : Transform(func)

CallPremultiply ==
    /\ pc = "idle"
    /\ Premultiply

Next ==
    \/ Construct
    \/ CallGetPixelColor
    \/ CallSetPixelColor
    \/ CallRegion
    \/ CallTransform
    \/ CallPremultiply
    \/ Continue
    \/ UseRegion

Spec == Init /\ [][Next]_vars

----------------------------------------------------------------------------
(* Vocabulary of the properties *)

Returned(op) == pc = "returned" /\ last.op = op

ReturnedOk(op) == Returned(op) /\ last.res.outcome = "ok"

\* the formats whose pixel operations are implemented
Implemented == {"R8", "Rg8", "Rgba8"}

\* the position lies inside the image: 0 <= x < width(), 0 <= y < height()
InBounds(img, position) ==
    /\ 0 <= position[1] /\ position[1] < Width(img)
    /\ 0 <= position[2] /\ position[2] < Height(img)

\* data.len() == width * height * format.stride(), the product taken as
\* the code takes it (in usize)
LengthOk(img) ==
    Len(img.data) = ByteSize(img.width, img.height, img.format).val

\* from_data was given a non-negative width and height
NonNegativeOrigin == origin # <<>> /\ origin[1] >= 0 /\ origin[2] >= 0

\* the stride bytes of pixel (x, y), as a sequence
PixelBytes(img, x, y) ==
    LET n == stride(img.format)
        idx == (x + y * img.width) * n
    IN SubSeq(img.data, idx + 1, idx + n)

----------------------------------------------------------------------------
(* C1: the length invariant *)

\* C1 (as claimed): after from_data with a non-negative width and height
\* and any calls that returned normally, data.len() is
\* width * height * format.stride() for the image and for every buffer
\* region returned.
C1_LengthInvariant ==
    (NonNegativeOrigin /\ last.res.outcome = "ok")
        => /\ LengthOk(image)
           /\ Returned("region") => LengthOk(last.res.ret)

\* The same holds of every build with overflow checks: there the
\* multiplication of a negative width by a negative height panics.
C1_WithOverflowChecks ==
    overflow_checks => C1_LengthInvariant

\* without overflow checks region(Rectangle::new(1, 1, -1, -1)) of the 2x2
\* R8 image 00 01 02 03 passes the assertion, copies no row and returns an
\* empty buffer whose width and height are usize::MAX
C1_Failing ==
    /\ ReturnedOk("region")
    /\ ~overflow_checks
    /\ last.before = [data |-> InputBytes("ramp", 4), width |-> 2,
                      height |-> 2, format |-> "R8"]
    /\ last.rect = <<1, 1, -1, -1>>
    /\ last.res.ret = [data |-> <<>>, width |-> AsUsize(-1),
                       height |-> AsUsize(-1), format |-> "R8"]
    /\ ~LengthOk(last.res.ret)

----------------------------------------------------------------------------
(* C2: positions outside the image *)

\* C2 (as claimed): get_pixel_color and set_pixel_color panic for every
\* position with x < 0, y < 0, x >= width or y >= height, and
\* set_pixel_color then leaves the buffer as it was.
C2_OutsidePanics ==
    (/\ Returned("get_pixel_color") \/ Returned("set_pixel_color")
     /\ ~InBounds(last.before, last.position))
        => /\ last.res.outcome = "panic"
           /\ image = last.before

\* set_pixel_color((2, 0), c) on the 2x2 R8 image 00 01 02 03 returns
\* normally, having written pixel (0, 1)
C2_Failing ==
    /\ ReturnedOk("set_pixel_color")
    /\ last.before = [data |-> InputBytes("ramp", 4), width |-> 2,
                      height |-> 2, format |-> "R8"]
    /\ last.position = <<2, 0>>
    /\ ~InBounds(last.before, last.position)
    /\ image.data = <<0, 1, 15, 3>>

----------------------------------------------------------------------------
(* C3: from_data *)

\* C3 (as claimed): with expected = width * height * stride, from_data
\* returns NotEnoughData{expected, actual = len} and no buffer when
\* len < expected, and otherwise succeeds with the first expected bytes.
C3_FromDataContract ==
    Returned("from_data") =>
        LET width == last.input[1]
            height == last.input[2]
            format == last.input[3]
            bytes == last.input[4]
            expected == ByteSize(AsUsize(width), AsUsize(height), format).val
        IN IF ULess(Len(bytes), expected)
             THEN /\ last.res.outcome = "err"
                  /\ last.res.expected = expected
                  /\ last.res.actual = Len(bytes)
                  /\ image = NoImage
             ELSE /\ last.res.outcome = "ok"
                  /\ image.data = SubSeq(bytes, 1, expected)
                  /\ image.width = AsUsize(width)
                  /\ image.height = AsUsize(height)
                  /\ image.format = format

\* The contract holds whenever width and height are not negative.
C3_NonNegative ==
    (Returned("from_data") /\ NonNegativeOrigin) => C3_FromDataContract

\* with overflow checks from_data(-1, -1, R8, vec![0]) panics in the
\* multiplication of the width by the height
C3_Failing ==
    /\ Returned("from_data")
    /\ overflow_checks
    /\ last.input = <<-1, -1, "R8", <<0>>>>
    /\ last.res.outcome = "panic"
    /\ last.res.why = "overflow"

----------------------------------------------------------------------------
(* C4: region copies the sub-rectangle *)

\* the rectangle has no negative field and lies inside the image
RectInside(img, rect) ==
    /\ rect[1] >= 0 /\ rect[2] >= 0 /\ rect[3] >= 0 /\ rect[4] >= 0
    /\ rect[1] + rect[3] <= Width(img)
    /\ rect[2] + rect[4] <= Height(img)

\* C4: for a format of stride 1, 2 or 4 and a rectangle (x, y, w, h) of
\* non-negative fields inside the image, region returns a buffer of width
\* w, height h and the same format whose pixel (i, j) has the bytes of the
\* source pixel (x + i, y + j), and leaves the source as it was.
C4_RegionCopies ==
    (/\ Returned("region")
     /\ last.before.format \in Implemented
     /\ RectInside(last.before, last.rect))
        => LET src == last.before
               out == last.res.ret
               x == last.rect[1]
               y == last.rect[2]
               w == last.rect[3]
               h == last.rect[4]
           IN /\ last.res.outcome = "ok"
              /\ out.width = w /\ out.height = h
              /\ out.format = src.format
              /\ Len(out.data) = w * h * stride(src.format)
              /\ \A i \in 0..(w - 1), j \in 0..(h - 1) :
                    PixelBytes(out, i, j) = PixelBytes(src, x + i, y + j)
              /\ image = src

\* the right column of the 2x2 Rgba8 image of the test region_rgba8
C4_Witness ==
    /\ ReturnedOk("region")
    /\ last.before = [data |-> InputBytes("ramp", 16), width |-> 2,
                      height |-> 2, format |-> "Rgba8"]
    /\ last.rect = <<1, 0, 1, 2>>
    /\ last.res.ret.data = <<4, 5, 6, 7, 12, 13, 14, 15>>

----------------------------------------------------------------------------
(* C5: transform against the loop over get_pixel_color / set_pixel_color *)

RECURSIVE ManualFrom(_, _, _, _, _)
\* set_pixel_color((x, y), f((x, y), get_pixel_color((x, y)))) for the
\* coordinates from the k-th on, in row-major order (y outer, x inner), cur
\* being the image and calls the calls of f so far
ManualFrom(img, func, k, cur, calls) ==
    LET position == <<k % Width(img), k \div Width(img)>>
        got == get_pixel_color(cur, position)
        put == set_pixel_color(cur, position,
                               Apply(func, position, got.color))
    IN IF Width(img) <= 0 \/ Height(img) <= 0
          \/ k >= Width(img) * Height(img)
         THEN [outcome |-> "ok", image |-> cur, calls |-> calls]
       ELSE IF got.outcome # "ok"
         THEN [outcome |-> got.outcome, image |-> cur, calls |-> calls]
       ELSE IF put.outcome # "ok"
         THEN [outcome |-> put.outcome, image |-> cur,
               calls |-> Append(calls, <<position, got.color>>)]
       ELSE ManualFrom(img, func, k + 1, put.image,
                       Append(calls, <<position, got.color>>))

Manual(img, func) == ManualFrom(img, func, 0, img, <<>>)

\* the closure of the call: premultiply is transform(to_premultiplied)
FuncOf(call) ==
    IF call.op = "premultiply" THEN "to_premultiplied" ELSE call.func

\* transform(f) did what the loop does: the same bytes, the same calls of f
SameAsManual ==
    LET m == Manual(last.before, FuncOf(last))
    IN /\ last.res.outcome = "ok"
       /\ m.outcome = "ok"
       /\ image = m.image
       /\ last.res.calls = m.calls

\* C5 (as claimed): for every buffer of format R8, Rg8 or Rgba8 and every
\* f, transform(f) leaves the buffer as the loop over get_pixel_color, f
\* and set_pixel_color in row-major order leaves it, with the same calls
\* of f in the same order.
C5_TransformIsManualLoop ==
    (/\ Returned("transform") \/ Returned("premultiply")
     /\ last.before.format \in Implemented)
        => SameAsManual

\* The equivalence holds of every image whose construction was given a
\* non-negative width and height.
C5_NonNegative ==
    NonNegativeOrigin => C5_TransformIsManualLoop

\* without overflow checks from_data(-1, -1, R8, vec![0]) is an image of
\* one byte whose width() and height() are -1: transform calls f once, at
\* (0, 0), and writes the byte; the loop over the coordinates is empty
C5_Failing ==
    /\ ReturnedOk("transform")
    /\ ~overflow_checks
    /\ origin = <<-1, -1>>
    /\ last.func = "add_one"
    /\ last.before.format = "R8"
    /\ last.before.data = <<0>>
    /\ image.data = <<1>>
    /\ Len(last.res.calls) = 1
    /\ Manual(last.before, "add_one").image.data = <<0>>
    /\ Manual(last.before, "add_one").calls = <<>>

----------------------------------------------------------------------------
(* C6: get_pixel_color after set_pixel_color *)

\* the colour as the format keeps it
Normalised(format, color) ==
    CASE format = "Rgba8" -> color
      [] format = "Rg8" -> rgba8(color[1], color[2], 0, 255)
      [] format = "R8" -> rgba8(color[1], 0, 0, 255)

\* C6: on R8, Rg8 and Rgba8, set_pixel_color((x, y), c) at an in-bounds
\* position returns normally, and get_pixel_color((x, y)) called right
\* after it returns c normalised to the format.
C6_GetAfterSet ==
    /\ (/\ Returned("set_pixel_color")
        /\ last.before.format \in Implemented
        /\ InBounds(last.before, last.position))
          => last.res.outcome = "ok"
    /\ (/\ Returned("get_pixel_color")
        /\ just_set # <<>>
        /\ last.position = just_set[1])
          => /\ last.res.outcome = "ok"
             /\ last.res.color = Normalised(image.format, just_set[2])

\* green and blue given to an Rg8 pixel: green comes back, blue and alpha
\* come back as 0 and 255
C6_Witness ==
    /\ ReturnedOk("get_pixel_color")
    /\ image.format = "Rg8"
    /\ last.position = <<1, 1>>
    /\ just_set = <<<<1, 1>>, rgba8(15, 14, 13, 12)>>
    /\ last.res.color = rgba8(15, 14, 0, 255)

----------------------------------------------------------------------------
(* C7: the channels a format does not store, on read *)

\* C7: at an in-bounds position get_pixel_color returns the 4 stored bytes
\* on Rgba8, (byte, 0, 0, 255) on R8 and (first, second, 0, 255) on Rg8.
C7_DefaultChannels ==
    (/\ Returned("get_pixel_color")
     /\ last.before.format \in Implemented
     /\ InBounds(last.before, last.position))
        => LET stored == PixelBytes(last.before, last.position[1],
                                    last.position[2])
           IN /\ last.res.outcome = "ok"
              /\ last.res.color =
                   CASE last.before.format = "Rgba8" ->
                          <<stored[1], stored[2], stored[3], stored[4]>>
                     [] last.before.format = "R8" ->
                          <<stored[1], 0, 0, 255>>
                     [] last.before.format = "Rg8" ->
                          <<stored[1], stored[2], 0, 255>>

\* the bottom right pixel of the 2x2 R8 image of the test, among bytes
\* that are neither 0 nor 255
C7_Witness ==
    /\ ReturnedOk("get_pixel_color")
    /\ last.before = [data |-> <<0, 102, 204, 0>>, width |-> 2,
                      height |-> 2, format |-> "R8"]
    /\ last.position = <<0, 1>>
    /\ last.res.color = rgba8(204, 0, 0, 255)

----------------------------------------------------------------------------
(* C8: what set_pixel_color writes *)

\* C8: at an in-bounds position set_pixel_color overwrites the stride bytes
\* at offset (x + y * width) * stride with the leading channels of the
\* colour and leaves every other byte, the length, the width, the height
\* and the format as they were.
C8_SetFrame ==
    (/\ Returned("set_pixel_color")
     /\ last.before.format \in Implemented
     /\ InBounds(last.before, last.position))
        => LET src == last.before
               n == stride(src.format)
               off == (last.position[1] + last.position[2] * src.width) * n
           IN /\ last.res.outcome = "ok"
              /\ Len(image.data) = Len(src.data)
              /\ image.width = src.width /\ image.height = src.height
              /\ image.format = src.format
              /\ \A i \in 1..Len(src.data) :
                    image.data[i] =
                      IF off < i /\ i <= off + n
                        THEN last.color[i - off]
                        ELSE src.data[i]

\* red and green written into the second pixel of a 2x2 Rg8 image
C8_Witness ==
    /\ ReturnedOk("set_pixel_color")
    /\ last.before = [data |-> InputBytes("ramp", 8), width |-> 2,
                      height |-> 2, format |-> "Rg8"]
    /\ last.position = <<1, 0>>
    /\ last.color = rgba8(15, 14, 13, 12)
    /\ image.data = <<0, 1, 15, 14, 4, 5, 6, 7>>

----------------------------------------------------------------------------
(* C9: premultiply on Rgba8 *)

\* the k-th pixel of an Rgba8 buffer, k from 0
Rgba(img, k) == SubSeq(img.data, 4 * k + 1, 4 * k + 4)

\* C9: premultiply replaces every Rgba8 pixel (r, g, b, a) by
\* (r*a/255, g*a/255, b*a/255, a), integer division, alpha kept; the
\* colour (00, 66, CC) gives 00 00 00 00 at alpha 00, 00 28 51 66 at 66,
\* 00 51 A3 CC at CC and 00 66 CC FF at FF.
C9_PremultiplyRgba8 ==
    (Returned("premultiply") /\ last.before.format = "Rgba8")
        => /\ last.res.outcome = "ok"
           /\ Len(image.data) = Len(last.before.data)
           /\ image.width = last.before.width
           /\ image.height = last.before.height
           /\ image.format = "Rgba8"
           /\ \A k \in 0..(Len(image.data) \div 4 - 1) :
                LET p == Rgba(last.before, k)
                    q == Rgba(image, k)
                IN /\ q = <<(p[1] * p[4]) \div 255, (p[2] * p[4]) \div 255,
                            (p[3] * p[4]) \div 255, p[4]>>
                   /\ p = <<0, 102, 204, 0>> => q = <<0, 0, 0, 0>>
                   /\ p = <<0, 102, 204, 102>> => q = <<0, 40, 81, 102>>
                   /\ p = <<0, 102, 204, 204>> => q = <<0, 81, 163, 204>>
                   /\ p = <<0, 102, 204, 255>> => q = <<0, 102, 204, 255>>

\* the image and the result of the test premultiply_rgba8
C9_Witness ==
    /\ ReturnedOk("premultiply")
    /\ last.before = [data |-> InputBytes("alpha", 16), width |-> 2,
                      height |-> 2, format |-> "Rgba8"]
    /\ image.data = <<0, 0, 0, 0,  0, 40, 81, 102,
                      0, 81, 163, 204,  0, 102, 204, 255>>

----------------------------------------------------------------------------
(* C10: premultiply on the formats without alpha *)

\* C10: on an R8 or Rg8 buffer premultiply returns normally and leaves the
\* data, the width, the height and the format as they were.
C10_PremultiplyNoAlpha ==
    (Returned("premultiply") /\ last.before.format \in {"R8", "Rg8"})
        => /\ last.res.outcome = "ok"
           /\ image = last.before

\* a 2x2 Rg8 image whose bytes are not all 0
C10_Witness ==
    /\ ReturnedOk("premultiply")
    /\ last.before = [data |-> <<0, 102, 204, 0, 0, 102, 204, 102>>,
                      width |-> 2, height |-> 2, format |-> "Rg8"]
    /\ image = last.before

----------------------------------------------------------------------------
(* C11: the operations on Rgba16F *)

\* the call ended in unimplemented!() and left the image as it was
Unimplemented ==
    /\ last.res.outcome = "panic"
    /\ last.res.why = "unimplemented"
    /\ image = last.before

\* C11: on an Rgba16F buffer holding at least one pixel, get_pixel_color
\* and set_pixel_color at an in-bounds position, transform and premultiply
\* each panic with "not implemented", and no byte of the buffer is modified.
C11_UnimplementedFatal ==
    /\ (/\ Returned("get_pixel_color") \/ Returned("set_pixel_color")
        /\ last.before.format = "Rgba16F"
        /\ InBounds(last.before, last.position))
          => Unimplemented
    /\ (/\ Returned("transform") \/ Returned("premultiply")
        /\ last.before.format = "Rgba16F"
        /\ Len(last.before.data) >= stride("Rgba16F"))
          => Unimplemented

\* set_pixel_color at the second pixel of a 2x1 Rgba16F image
C11_Witness ==
    /\ Returned("set_pixel_color")
    /\ last.before = [data |-> InputBytes("ramp", 16), width |-> 2,
                      height |-> 1, format |-> "Rgba16F"]
    /\ last.position = <<1, 0>>
    /\ Unimplemented

\* transform of a 1x1 Rgba16F image: the closure is called once, then the
\* panic
C11_WitnessTransform ==
    /\ Returned("transform")
    /\ last.before = [data |-> InputBytes("ramp", 8), width |-> 1,
                      height |-> 1, format |-> "Rgba16F"]
    /\ Len(last.res.calls) = 1
    /\ Unimplemented

----------------------------------------------------------------------------
(* C12: the rounding of premultiply *)

\* c * alpha / 255 rounded to the nearest integer
RoundNearest(c, alpha) == (2 * c * alpha + 255) \div 510

\* the fraction of c * alpha / 255 is a half or more
UpperHalf(c, alpha) == 2 * ((c * alpha) % 255) >= 255

\* C12 (as claimed): after premultiply every colour channel of an Rgba8
\* pixel is c * alpha / 255 rounded to the nearest integer.
C12_RoundsToNearest ==
    (ReturnedOk("premultiply") /\ last.before.format = "Rgba8")
        => \A k \in 0..(Len(image.data) \div 4 - 1), i \in 1..3 :
              Rgba(image, k)[i] =
                  RoundNearest(Rgba(last.before, k)[i], Rgba(last.before, k)[4])

\* C12 (amended): after premultiply every colour channel of an Rgba8 pixel
\* is c * alpha / 255 rounded down: the nearest integer when the fraction
\* is below a half and one less than the nearest integer otherwise; this
\* gives 28 for 66 at alpha 66, 51 for CC at alpha 66 and A3 for CC at
\* alpha CC, where rounding to nearest gives 29, 52 and A3.
C12_RoundsDown ==
    (Returned("premultiply") /\ last.before.format = "Rgba8")
        => /\ last.res.outcome = "ok"
           /\ \A k \in 0..(Len(image.data) \div 4 - 1), i \in 1..3 :
                 LET c == Rgba(last.before, k)[i]
                     alpha == Rgba(last.before, k)[4]
                     q == Rgba(image, k)[i]
                 IN /\ q = RoundNearest(c, alpha)
                            - (IF UpperHalf(c, alpha) THEN 1 ELSE 0)
                    /\ (c = 102 /\ alpha = 102) => (q = 40 /\ q # 41)
                    /\ (c = 204 /\ alpha = 102) => (q = 81 /\ q # 82)
                    /\ (c = 204 /\ alpha = 204) => q = 163

\* the pixel 00 66 CC 66 of the test premultiply_rgba8 becomes 00 28 51 66,
\* where the nearest integers are 29 and 52
C12_Witness ==
    /\ ReturnedOk("premultiply")
    /\ last.before.format = "Rgba8"
    /\ \E k \in 0..(Len(image.data) \div 4 - 1) :
          /\ Rgba(last.before, k) = <<0, 102, 204, 102>>
          /\ Rgba(image, k) = <<0, 40, 81, 102>>
    /\ RoundNearest(102, 102) = 41
    /\ RoundNearest(204, 102) = 82

----------------------------------------------------------------------------
(* C13: the assertion of region *)

\* the slice region reads for row scan_y lies inside the data of the
\* image, with x_start <= x_end
RowInside(img, rect, scan_y) ==
    LET row == RowBounds(img, AsUsize(rect[1]), AsUsize(rect[3]), scan_y)
    IN /\ ~row.ovf
       /\ SliceOk(img, row.x_start, row.x_end)

\* region returned, having read rows inside the data only, a buffer of the
\* rectangle's width and height, neither negative, and of
\* width * height * stride bytes
SafeCopy(img, rect, res) ==
    /\ res.outcome = "ok"
    /\ \A scan_y \in rect[2]..(rect[2] + rect[4] - 1) :
          RowInside(img, rect, scan_y)
    /\ rect[3] >= 0 /\ rect[4] >= 0
    /\ Width(res.ret) = rect[3] /\ Height(res.ret) = rect[4]
    /\ Len(res.ret.data) = rect[3] * rect[4] * stride(img.format)

\* C13 (as claimed): for every rectangle that passes the assertion of
\* region, negative widths and heights included, every row slice region
\* reads lies inside the data and the buffer returned has the rectangle's
\* width and height, not negative, and width * height * stride bytes; and
\* every rectangle not wholly inside the image is rejected by a panic.
C13_AssertionSufficient ==
    Returned("region") =>
        /\ RegionAssert(last.before, last.rect)
              => SafeCopy(last.before, last.rect, last.res)
        /\ ~RectInside(last.before, last.rect)
              => last.res.outcome = "panic"

\* The claim holds of every rectangle whose width and height are not
\* negative.
C13_NonNegativeExtent ==
    (Returned("region") /\ last.rect[3] >= 0 /\ last.rect[4] >= 0)
        => C13_AssertionSufficient

\* in every build region(Rectangle::new(0, 0, -1, 0)) of the 2x2 R8 image
\* 00 01 02 03 passes the assertion and returns a buffer whose width is
\* usize::MAX (width() is -1)
C13_Failing ==
    /\ ReturnedOk("region")
    /\ overflow_checks
    /\ last.before = [data |-> InputBytes("ramp", 4), width |-> 2,
                      height |-> 2, format |-> "R8"]
    /\ last.rect = <<0, 0, -1, 0>>
    /\ RegionAssert(last.before, last.rect)
    /\ ~RectInside(last.before, last.rect)
    /\ last.res.ret = [data |-> <<>>, width |-> AsUsize(-1), height |-> 0,
                       format |-> "R8"]
    /\ Width(last.res.ret) = -1

====
